---- MODULE Spec2Model ----
(***************************************************************************)
(* Model of enbx2html.py: EnbxConverter (the model-building stage          *)
(* parse_metadata / parse_board / parse_references / map_slides, the       *)
(* emitter generate_html with render_slide / render_element /              *)
(* render_rich_text / resolve_image_source) and the navigation script the  *)
(* emitter writes into the artifact (showSlide / nextSlide / prevSlide and *)
(* the keydown listener).                                                  *)
(*                                                                         *)
(* Strings the code inspects character by character (image sources,        *)
(* registry keys, resource paths, color literals) are sequences of         *)
(* one-character strings.  An XML node that is absent is NoNode; a node    *)
(* whose text is empty (ElementTree gives None) is the empty sequence.     *)
(***************************************************************************)
EXTENDS Integers, Sequences, FiniteSets, TLC

\* Longest Board.xml Slides/Item list the model enumerates.
MaxOrder == 2

\* Most pieces a source string passed to resolve_image_source is built from.
MaxPieces == 4

\* Most TextRuns in a TextLine of an element passed to render_element.
MaxRuns == 2

----------------------------------------------------------------------------
(* Character-level strings *)

NoNode == <<"<absent>">>

IdPrefix == <<"i", "d", ":", "/", "/">>

\* p occurs in s starting at position i (1-based)
IsPrefixAt(p, s, i) ==
    /\ i + Len(p) - 1 <= Len(s)
    /\ \A k \in 1..Len(p) : s[i + k - 1] = p[k]

\* str.startswith
startswith(s, p) == IsPrefixAt(p, s, 1)

RECURSIVE ReplaceFrom(_, _, _, _)
ReplaceFrom(s, old, new, i) ==
    IF i > Len(s) THEN <<>>
    ELSE IF IsPrefixAt(old, s, i)
         THEN new \o ReplaceFrom(s, old, new, i + Len(old))
         ELSE <<s[i]>> \o ReplaceFrom(s, old, new, i + 1)

\* str.replace(old, new): every non-overlapping occurrence, left to right
replace(s, old, new) == ReplaceFrom(s, old, new, 1)

----------------------------------------------------------------------------
(* Input package: the extracted directory tree the converter reads *)

MetaKeys == {"Name", "Creator", "CreatedDateTime", "ModifiedDateTime"}

\* key_map of generate_html, in its iteration (insertion) order
key_map == <<"Name", "Creator", "CreatedDateTime", "ModifiedDateTime">>

MetaAbsent == "<absent>"
MetaNone == "<None>"

SlideIds == {"s1", "s2"}
FileNames == {"a.xml", "b.xml"}

KeyR1 == <<"r", "1">>
SrcR1 == IdPrefix \o KeyR1
SrcMissing == IdPrefix \o <<"m">>
TargetR1 == <<"R", "\\", "1">>
PathR1 == <<"R", "/", "1">>

\* Document.xml: absent, malformed, or well-formed with each field a node
\* with text, a node without text, or no node at all.
DocFields ==
    { [k \in MetaKeys |-> IF k = "Creator" THEN MetaAbsent
                           ELSE IF k = "CreatedDateTime" THEN MetaNone ELSE "v"] }

DocFiles ==
    [state : {"absent", "malformed"}, fields : {[k \in MetaKeys |-> MetaAbsent]}]
      \cup [state : {"ok"}, fields : DocFields]

BoundedSeq(S, n) == UNION { [1..m -> S] : m \in 0..n }

\* Board.xml: SlideWidth / SlideHeight nodes present or not, Slides/Item list
BoardFiles ==
    [state : {"absent", "malformed"}, hasWidth : {FALSE}, hasHeight : {FALSE},
     SlideWidth : {800}, SlideHeight : {600}, items : {<<>>}]
      \cup [state : {"ok"}, hasWidth : BOOLEAN, hasHeight : BOOLEAN,
             SlideWidth : {800}, SlideHeight : {600},
             items : BoundedSeq(SlideIds, MaxOrder)]

\* One Relationship entry: Id and Target child nodes, each present or not
RelEntries ==
    { [Id |-> KeyR1, Target |-> TargetR1],
      [Id |-> NoNode, Target |-> TargetR1],
      [Id |-> KeyR1, Target |-> NoNode] }

RefFiles ==
    [state : {"absent", "malformed"}, rels : {<<>>}]
      \cup [state : {"ok"}, rels : {<<>>} \cup { <<e>> : e \in RelEntries }]

----------------------------------------------------------------------------
(* Slide files: elements and rich text *)

\* A TextRun: its Text child (absent, empty, or a string) and the text of its
\* Foreground/ColorBrush node (NoNode when the node is absent).  FontSize,
\* FontFamily and FontWeight only append to the span's style text.
RunTextAbsent == "<absent>"

NoRichText == [present |-> FALSE, valign |-> "", lines |-> <<>>]

\* An element of a slide: its tag, whether it has a Text child (ActivityItem),
\* the RichText child of its text root, its direct Source child and its
\* Background/ImageBrush/Source chain (NoNode when any link is absent).
\* Geometry (X, Y, Width, Height, Rotation) only adds to the style text.
PictureElem == [tag |-> "Picture", hasText |-> FALSE, RichText |-> NoRichText,
                Source |-> SrcR1, Background |-> NoNode]

PlainLine == [align |-> "Center",
              runs |-> << [Text |-> "hi", Foreground |-> NoNode] >>]

ActivityElem == [tag |-> "ActivityItem", hasText |-> TRUE,
                 RichText |-> [present |-> TRUE, valign |-> "Top",
                               lines |-> << PlainLine >>],
                 Source |-> SrcR1, Background |-> SrcR1]

\* Element lists of the slide files the pipeline reads
SlideElems == { <<>>, <<ActivityElem, PictureElem>> }

\* A file of the Slides directory: not there, unparsable, or a slide with an
\* Id node (or none), a Background/ImageBrush/Source chain and Elements.
SlideFiles ==
    [state : {"nofile", "malformed"}, Id : {MetaAbsent}, Background : {NoNode},
     Elements : {<<>>}]
      \cup [state : {"ok"}, Id : {MetaAbsent}, Background : {NoNode},
             Elements : {<<>>}]
      \cup [state : {"ok"}, Id : SlideIds, Background : {NoNode, SrcR1},
             Elements : SlideElems]

Packages ==
    { p \in [doc : DocFiles, board : BoardFiles, ref : RefFiles,
              slidesDir : BOOLEAN, slides : [FileNames -> SlideFiles]] :
        ~p.slidesDir => \A f \in FileNames : p.slides[f].state = "nofile" }

----------------------------------------------------------------------------
(* State *)

VARIABLES
    pkg,            \* the input package (never written by the converter)
    pc,             \* next call of process_enbx, or "done"
    error,          \* "none", or the exception that ended the run
    metadata,       \* self.metadata
    board_info,     \* self.board_info
    slide_order,    \* self.slide_order
    resource_map,   \* self.resource_map
    slide_file_map, \* self.slide_file_map
    artifact,       \* index.html as written by generate_html
    currentSlide,   \* script: let currentSlide
    active,         \* script: which of slides[] has class 'active'
    showArgs,       \* script: every argument showSlide was called with
    run,            \* which conversion of the package this is
    firstArtifact,  \* the artifact of the first conversion
    source_text,    \* argument of a direct resolve_image_source call
    resolved,       \* its result
    elem,           \* argument of a direct render_element call
    rendered        \* its result

vars == << pkg, pc, error, metadata, board_info, slide_order, resource_map,
           slide_file_map, artifact, currentSlide, active, showArgs, run,
           firstArtifact, source_text, resolved, elem, rendered >>

converter == << metadata, board_info, slide_order, resource_map, slide_file_map >>
viewer == << currentSlide, active, showArgs >>
direct == << source_text, resolved, elem, rendered >>

\* An empty dict
EmptyDict == <<>>

NoImage == <<>>

NoArtifact == [written |-> FALSE, width |-> 0, height |-> 0, layers |-> <<>>,
               rows |-> <<>>]

----------------------------------------------------------------------------
(* Resolver and renderers *)

\* dict[k] = v
DictSet(d, k, v) == [x \in (DOMAIN d) \cup {k} |-> IF x = k THEN v ELSE d[x]]

\* dict.get(k, default)
DictGet(d, k, default) == IF k \in DOMAIN d THEN d[k] ELSE default

resolve_image_source(text) ==
    IF text = <<>> \/ ~startswith(text, IdPrefix)
    THEN NoImage
    ELSE LET res_id == replace(text, IdPrefix, <<>>)
         IN  IF res_id \in DOMAIN resource_map
             THEN resource_map[res_id]
             ELSE NoImage

HexUpper == <<"0", "1", "2", "3", "4", "5", "6", "7", "8", "9",
              "A", "B", "C", "D", "E", "F">>
HexLower == <<"0", "1", "2", "3", "4", "5", "6", "7", "8", "9",
              "a", "b", "c", "d", "e", "f">>

IsHex(c) == \E i \in DOMAIN HexUpper : HexUpper[i] = c \/ HexLower[i] = c
HexVal(c) == (CHOOSE i \in DOMAIN HexUpper : HexUpper[i] = c \/ HexLower[i] = c) - 1

\* int(s, 16) of a two-character string: two hex digits, or a sign or a blank
\* next to one hex digit; anything else raises ValueError.
int16(s) ==
    IF IsHex(s[1]) /\ IsHex(s[2])
    THEN [ok |-> TRUE, val |-> 16 * HexVal(s[1]) + HexVal(s[2])]
    ELSE IF s[1] = "-" /\ IsHex(s[2])
    THEN [ok |-> TRUE, val |-> 0 - HexVal(s[2])]
    ELSE IF s[1] \in {"+", " "} /\ IsHex(s[2])
    THEN [ok |-> TRUE, val |-> HexVal(s[2])]
    ELSE IF IsHex(s[1]) /\ s[2] = " "
    THEN [ok |-> TRUE, val |-> HexVal(s[1])]
    ELSE [ok |-> FALSE, val |-> 0]

NoColor == [kind |-> "nocolor", r |-> 0, g |-> 0, b |-> 0, a |-> 0,
            literal |-> <<>>, err |-> "none"]

\* The color declaration of a run whose Foreground/ColorBrush text is
\* color_hex: rgba(r,g,b,a/255) or the literal itself.
color_style(color_hex) ==
    IF color_hex = <<>>
    THEN [NoColor EXCEPT !.kind = "raised", !.err = "AttributeError"]
    ELSE IF startswith(color_hex, <<"#">>) /\ Len(color_hex) = 9
    THEN LET a == int16(SubSeq(color_hex, 2, 3))
             r == int16(SubSeq(color_hex, 4, 5))
             g == int16(SubSeq(color_hex, 6, 7))
             b == int16(SubSeq(color_hex, 8, 9))
         IN  IF a.ok /\ r.ok /\ g.ok /\ b.ok
             THEN [kind |-> "rgba", r |-> r.val, g |-> g.val, b |-> b.val,
                   a |-> a.val, literal |-> <<>>, err |-> "none"]
             ELSE [NoColor EXCEPT !.kind = "raised", !.err = "ValueError"]
    ELSE [NoColor EXCEPT !.kind = "verbatim", !.literal = color_hex]

\* What one TextRun raises, if anything
RunErr(r) ==
    IF r.Text = RunTextAbsent THEN "AttributeError"
    ELSE IF r.Text = "" \/ r.Foreground = NoNode THEN "none"
    ELSE color_style(r.Foreground).err

RECURSIVE Spans(_)
\* The spans of a line's runs: none for a run without text
Spans(runs) ==
    IF runs = <<>> THEN <<>>
    ELSE LET r == Head(runs)
         IN  IF r.Text \in {RunTextAbsent, ""}
             THEN Spans(Tail(runs))
             ELSE << [text |-> r.Text,
                      color |-> IF r.Foreground = NoNode THEN NoColor
                                ELSE color_style(r.Foreground)] >>
                  \o Spans(Tail(runs))

RECURSIVE FirstErr(_)
FirstErr(errs) ==
    IF errs = <<>> THEN "none"
    ELSE IF Head(errs) # "none" THEN Head(errs) ELSE FirstErr(Tail(errs))

RECURSIVE RunErrs(_)
RunErrs(runs) ==
    IF runs = <<>> THEN <<>> ELSE <<RunErr(Head(runs))>> \o RunErrs(Tail(runs))

RECURSIVE LineErrs(_)
LineErrs(lines) ==
    IF lines = <<>> THEN <<>>
    ELSE <<FirstErr(RunErrs(Head(lines).runs))>> \o LineErrs(Tail(lines))

NoRich == [justify |-> "", lines |-> <<>>]

render_rich_text(rich_text_node) ==
    [err |-> FirstErr(LineErrs(rich_text_node.lines)),
     rich |-> [justify |-> IF rich_text_node.valign = "Center" THEN "center"
                           ELSE IF rich_text_node.valign = "Bottom" THEN "flex-end"
                           ELSE "flex-start",
               lines |-> [i \in DOMAIN rich_text_node.lines |->
                            LET line == rich_text_node.lines[i]
                            IN  [align |-> IF line.align = "Center" THEN "center"
                                           ELSE IF line.align = "Right" THEN "right"
                                           ELSE "left",
                                 spans |-> Spans(line.runs)]]]]

NoContent == [kind |-> "none", src |-> NoImage, rich |-> NoRich]

\* The image a Background/ImageBrush/Source chain resolves to
BackgroundImage(chain) ==
    IF chain = NoNode THEN NoImage ELSE resolve_image_source(chain)

\* render_element as it would be if a resolving direct Source won over text
render_element_image_first(e) ==
    LET isText == e.tag = "Text" \/ (e.tag = "ActivityItem" /\ e.hasText)
        hasRich == isText /\ e.RichText.present
        rt == render_rich_text(e.RichText)
        bgimage == IF hasRich /\ e.tag = "ActivityItem"
                   THEN BackgroundImage(e.Background) ELSE NoImage
        img == IF e.Source = NoNode THEN NoImage
               ELSE resolve_image_source(e.Source)
    IN  [err |-> IF hasRich THEN rt.err ELSE "none",
         bgimage |-> bgimage,
         content |-> IF img # NoImage
                     THEN [kind |-> "img", src |-> img, rich |-> NoRich]
                     ELSE IF hasRich
                     THEN [kind |-> "richtext", src |-> NoImage, rich |-> rt.rich]
                     ELSE NoContent]

render_element(e) ==
    LET isText == e.tag = "Text" \/ (e.tag = "ActivityItem" /\ e.hasText)
        hasRich == isText /\ e.RichText.present
        rt == render_rich_text(e.RichText)
        bgimage == IF hasRich /\ e.tag = "ActivityItem"
                   THEN BackgroundImage(e.Background) ELSE NoImage
        img == IF e.Source = NoNode THEN NoImage
               ELSE resolve_image_source(e.Source)
    IN  [err |-> IF hasRich THEN rt.err ELSE "none",
         bgimage |-> bgimage,
         content |-> IF hasRich
                     THEN [kind |-> "richtext", src |-> NoImage, rich |-> rt.rich]
                     ELSE IF img # NoImage
                     THEN [kind |-> "img", src |-> img, rich |-> NoRich]
                     ELSE NoContent]

\* render_slide as it would be if it marked every layer active
render_slide_all_active(xml_file, is_active) ==
    LET root == pkg.slides[xml_file]
        elems == [i \in DOMAIN root.Elements |-> render_element(root.Elements[i])]
    IN  [err |-> FirstErr([i \in DOMAIN elems |-> elems[i].err]),
         active |-> TRUE,
         bgimage |-> BackgroundImage(root.Background),
         elements |-> [i \in DOMAIN elems |->
                         [bgimage |-> elems[i].bgimage, content |-> elems[i].content]]]

render_slide(xml_file, is_active) ==
    LET root == pkg.slides[xml_file]
        elems == [i \in DOMAIN root.Elements |-> render_element(root.Elements[i])]
    IN  [err |-> FirstErr([i \in DOMAIN elems |-> elems[i].err]),
         active |-> is_active,
         bgimage |-> BackgroundImage(root.Background),
         elements |-> [i \in DOMAIN elems |->
                         [bgimage |-> elems[i].bgimage, content |-> elems[i].content]]]

----------------------------------------------------------------------------
(* Conversion: process_enbx calls the stages in order; an exception that a
   stage does not catch ends the run where it was raised. *)

DefaultWidth == 1280
DefaultHeight == 720

Running(stage) == pc = stage /\ error = "none"

\* EnbxConverter.__init__
NewConverter ==
    /\ metadata = EmptyDict
    /\ board_info = EmptyDict
    /\ slide_order = <<>>
    /\ resource_map = EmptyDict
    /\ slide_file_map = EmptyDict

parse_metadata ==
    /\ Running("parse_metadata")
    /\ pc' = "parse_board"
    /\ metadata' =
          IF pkg.doc.state = "ok"
          THEN [k \in MetaKeys |-> IF pkg.doc.fields[k] = MetaAbsent
                                    THEN "Unknown" ELSE pkg.doc.fields[k]]
          ELSE metadata
    /\ UNCHANGED << pkg, error, board_info, slide_order, resource_map,
                    slide_file_map, artifact, viewer, run, firstArtifact, direct >>

\* parse_board as it would be without its exists() check: ET.parse raises
\* on the absent file
parse_board_unchecked ==
    /\ Running("parse_board")
    /\ LET b == pkg.board
       IN  /\ error' = IF b.state = "absent" THEN "FileNotFoundError"
                       ELSE IF b.state = "malformed" THEN "ParseError"
                       ELSE IF ~(b.hasWidth /\ b.hasHeight) THEN "AttributeError"
                       ELSE "none"
           /\ pc' = IF error' = "none" THEN "parse_references" ELSE pc
           /\ board_info' =
                 IF b.state = "ok" /\ b.hasWidth
                 THEN IF b.hasHeight
                      THEN DictSet(DictSet(board_info, "width", b.SlideWidth),
                                   "height", b.SlideHeight)
                      ELSE DictSet(board_info, "width", b.SlideWidth)
                 ELSE board_info
           /\ slide_order' = IF error' = "none" THEN slide_order \o b.items
                             ELSE slide_order
    /\ UNCHANGED << pkg, metadata, resource_map, slide_file_map, artifact,
                    viewer, run, firstArtifact, direct >>

parse_board ==
    /\ Running("parse_board")
    /\ LET b == pkg.board
       IN  /\ error' = IF b.state = "malformed" THEN "ParseError"
                       ELSE IF b.state = "ok" /\ ~(b.hasWidth /\ b.hasHeight)
                       THEN "AttributeError"
                       ELSE "none"
           /\ pc' = IF error' = "none" THEN "parse_references" ELSE pc
           /\ board_info' =
                 IF b.state = "ok" /\ b.hasWidth
                 THEN IF b.hasHeight
                      THEN DictSet(DictSet(board_info, "width", b.SlideWidth),
                                   "height", b.SlideHeight)
                      ELSE DictSet(board_info, "width", b.SlideWidth)
                 ELSE board_info
           /\ slide_order' = IF error' = "none" THEN slide_order \o b.items
                             ELSE slide_order
    /\ UNCHANGED << pkg, metadata, resource_map, slide_file_map, artifact,
                    viewer, run, firstArtifact, direct >>

RECURSIVE AddRelationships(_, _)
\* The loop over Relationship entries: the registry so far and what it raised
AddRelationships(map, rels) ==
    IF rels = <<>> THEN [map |-> map, err |-> "none"]
    ELSE LET rel == Head(rels)
         IN  IF rel.Id = NoNode \/ rel.Target = NoNode \/ rel.Target = <<>>
             THEN [map |-> map, err |-> "AttributeError"]
             ELSE AddRelationships(
                      DictSet(map, rel.Id, replace(rel.Target, <<"\\">>, <<"/">>)),
                      Tail(rels))

parse_references ==
    /\ Running("parse_references")
    /\ LET res == AddRelationships(resource_map, pkg.ref.rels)
       IN  /\ error' = IF pkg.ref.state = "malformed" THEN "ParseError"
                       ELSE IF pkg.ref.state = "ok" THEN res.err
                       ELSE "none"
           /\ resource_map' = IF pkg.ref.state = "ok" THEN res.map ELSE resource_map
           /\ pc' = IF error' = "none" THEN "map_slides" ELSE pc
    /\ UNCHANGED << pkg, metadata, board_info, slide_order, slide_file_map,
                    artifact, viewer, run, firstArtifact, direct >>

\* The files Path.glob yields, in every order a directory scan can produce
ScanOrders ==
    LET files == { f \in FileNames : pkg.slides[f].state # "nofile" }
    IN  { o \in [1..Cardinality(files) -> files] :
            \A i, j \in DOMAIN o : o[i] = o[j] => i = j }

RECURSIVE MapFiles(_, _)
\* The loop of map_slides: a file that fails to parse or has no Id is skipped
MapFiles(map, files) ==
    IF files = <<>> THEN map
    ELSE LET f == Head(files)
             root == pkg.slides[f]
         IN  IF root.state = "ok" /\ root.Id # MetaAbsent
             THEN MapFiles(DictSet(map, root.Id, f), Tail(files))
             ELSE MapFiles(map, Tail(files))

map_slides ==
    /\ Running("map_slides")
    /\ pc' = "copy_resources"
    /\ IF pkg.slidesDir
       THEN \E o \in ScanOrders : slide_file_map' = MapFiles(slide_file_map, o)
       ELSE slide_file_map' = slide_file_map
    /\ UNCHANGED << pkg, error, metadata, board_info, slide_order, resource_map,
                    artifact, viewer, run, firstArtifact, direct >>

\* Copies the Resources directory; reads and writes none of the model
copy_resources ==
    /\ Running("copy_resources")
    /\ pc' = "generate_html"
    /\ UNCHANGED << pkg, error, converter, artifact, viewer, run,
                    firstArtifact, direct >>

RECURSIVE SlideLayersBreak(_)
\* SlideLayers as it would be if a missing slide ended the loop
SlideLayersBreak(index) ==
    IF index >= Len(slide_order) THEN <<>>
    ELSE LET slide_id == slide_order[index + 1]
         IN  IF slide_id \notin DOMAIN slide_file_map
             THEN <<>>
             ELSE <<render_slide(slide_file_map[slide_id], index = 0)>>
                  \o SlideLayersBreak(index + 1)

RECURSIVE SlideLayers(_)
\* The loop over enumerate(self.slide_order), from index `index` (0-based) on
SlideLayers(index) ==
    IF index >= Len(slide_order) THEN <<>>
    ELSE LET slide_id == slide_order[index + 1]
         IN  IF slide_id \notin DOMAIN slide_file_map
             THEN SlideLayers(index + 1)
             ELSE <<render_slide(slide_file_map[slide_id], index = 0)>>
                  \o SlideLayers(index + 1)

RECURSIVE MetadataRows(_)
\* The loop over key_map, from its i-th key on
MetadataRows(i) ==
    IF i > Len(key_map) THEN <<>>
    ELSE LET key == key_map[i]
             val == DictGet(metadata, key, "")
         IN  IF val \in {"", MetaNone}
             THEN MetadataRows(i + 1)
             ELSE << [key |-> key, val |-> val, link |-> key = "Creator"] >>
                  \o MetadataRows(i + 1)

generate_html ==
    /\ Running("generate_html")
    /\ LET layers == SlideLayers(0)
           err == FirstErr([i \in DOMAIN layers |-> layers[i].err])
       IN  /\ error' = err
           /\ pc' = IF err = "none" THEN "done" ELSE pc
           /\ artifact' =
                 IF err = "none"
                 THEN [written |-> TRUE,
                       width |-> DictGet(board_info, "width", DefaultWidth),
                       height |-> DictGet(board_info, "height", DefaultHeight),
                       layers |-> [i \in DOMAIN layers |->
                                     [active |-> layers[i].active,
                                      bgimage |-> layers[i].bgimage,
                                      elements |-> layers[i].elements]],
                       rows |-> MetadataRows(1)]
                 ELSE artifact
    /\ UNCHANGED << pkg, converter, viewer, run, firstArtifact, direct >>

----------------------------------------------------------------------------
(* The script of the artifact *)

Keys == {"ArrowRight", "ArrowDown", " ", "ArrowLeft", "ArrowUp", "Enter"}

\* let currentSlide = 0; const slides = document.querySelectorAll('.slide')
open_artifact ==
    /\ Running("done")
    /\ pc' = "viewing"
    /\ currentSlide' = 0
    /\ active' = [i \in DOMAIN artifact.layers |-> artifact.layers[i].active]
    /\ showArgs' = {}
    /\ UNCHANGED << pkg, error, converter, artifact, run, firstArtifact, direct >>

\* slides.length is Len(active); slides[i] is active[i + 1].  The callers
\* pass n in -1..slides.length, where JavaScript's % and TLA+'s % agree.
showSlide(n) ==
    LET removed == [active EXCEPT ![currentSlide + 1] = FALSE]
        next == (n + Len(active)) % Len(active)
    IN  /\ currentSlide' = next
        /\ active' = [removed EXCEPT ![next + 1] = TRUE]
        /\ showArgs' = showArgs \cup {n}

\* nextSlide as it would be if it relied on showSlide's modular arithmetic
nextSlideUnguarded ==
    IF Len(active) > 0
    THEN showSlide(currentSlide + 1)
    ELSE UNCHANGED viewer

nextSlide ==
    IF currentSlide < Len(active) - 1
    THEN showSlide(currentSlide + 1)
    ELSE UNCHANGED viewer

prevSlide ==
    IF currentSlide > 0
    THEN showSlide(currentSlide - 1)
    ELSE UNCHANGED viewer

\* The document's keydown listener, on one key
keydown_on(key) ==
    IF key \in {"ArrowRight", "ArrowDown", " "}
    THEN nextSlide
    ELSE IF key \in {"ArrowLeft", "ArrowUp"}
    THEN prevSlide
    ELSE UNCHANGED viewer

Viewing ==
    /\ pc = "viewing"
    /\ UNCHANGED << pkg, pc, error, converter, artifact, run, firstArtifact, direct >>

\* <button onclick="nextSlide()">
click_next == Viewing /\ nextSlide

\* <button onclick="prevSlide()">
click_prev == Viewing /\ prevSlide

keydown == Viewing /\ \E key \in Keys : keydown_on(key)

----------------------------------------------------------------------------
(* A second conversion of the same package into a new, empty output location *)

second_run ==
    /\ Running("done")
    /\ run = 1
    /\ run' = 2
    /\ firstArtifact' = artifact
    /\ artifact' = NoArtifact
    /\ pc' = "parse_metadata"
    /\ metadata' = EmptyDict
    /\ board_info' = EmptyDict
    /\ slide_order' = <<>>
    /\ resource_map' = EmptyDict
    /\ slide_file_map' = EmptyDict
    /\ UNCHANGED << pkg, error, viewer, direct >>

----------------------------------------------------------------------------
(* Initial values *)

NoRendered == [err |-> "none", bgimage |-> NoImage, content |-> NoContent]

EmptyPackage ==
    [doc |-> [state |-> "absent", fields |-> [k \in MetaKeys |-> MetaAbsent]],
     board |-> [state |-> "absent", hasWidth |-> FALSE, hasHeight |-> FALSE,
                SlideWidth |-> 800, SlideHeight |-> 600, items |-> <<>>],
     ref |-> [state |-> "absent", rels |-> <<>>],
     slidesDir |-> FALSE,
     slides |-> [f \in FileNames |->
                   [state |-> "nofile", Id |-> MetaAbsent, Background |-> NoNode,
                    Elements |-> <<>>]]]

NoViewer == currentSlide = 0 /\ active = <<>> /\ showArgs = {}

NoDirect ==
    /\ source_text = <<>>
    /\ resolved = NoImage
    /\ elem = PictureElem
    /\ rendered = NoRendered

----------------------------------------------------------------------------
(* Direct calls of resolve_image_source and render_element *)

RECURSIVE Concat(_)
Concat(pieces) ==
    IF pieces = <<>> THEN <<>> ELSE Head(pieces) \o Concat(Tail(pieces))

Pieces == { IdPrefix, <<"r">>, <<"1">>, <<"i">> }

\* Source strings: every concatenation of at most MaxPieces pieces
SourceTexts == { Concat(ps) : ps \in BoundedSeq(Pieces, MaxPieces) }

RegistryKeys == { KeyR1, <<"r">>, <<"r">> \o IdPrefix \o <<"1">> }

\* Registries as parse_references builds them: forward-slash paths, one per key
Registries ==
    { [k \in ks |-> <<"R", "/">> \o k] : ks \in SUBSET RegistryKeys }

call_resolve_image_source ==
    /\ Running("call_resolve_image_source")
    /\ pc' = "returned"
    /\ resolved' = resolve_image_source(source_text)
    /\ UNCHANGED << pkg, error, converter, artifact, viewer, run, firstArtifact,
                    source_text, elem, rendered >>

call_render_element ==
    /\ Running("call_render_element")
    /\ pc' = "returned"
    /\ rendered' = render_element(elem)
    /\ UNCHANGED << pkg, error, converter, artifact, viewer, run, firstArtifact,
                    source_text, resolved, elem >>

ColorOk == <<"#", "8", "0", "F", "F", "0", "0", "0", "0">>
ColorShort == <<"#", "F", "F", "0", "0", "0", "0">>

Runs == [Text : {RunTextAbsent, "", "hi"}, Foreground : {NoNode, ColorOk, ColorShort}]

Lines == [align : {"Left", "Right"}, runs : BoundedSeq(Runs, MaxRuns)]

RichTexts ==
    {NoRichText}
      \cup [present : {TRUE}, valign : {"Top", "Bottom"},
             lines : {<<>>} \cup { <<l>> : l \in Lines }
                            \cup { <<PlainLine, l>> : l \in Lines }]

ElementInputs ==
    [tag : {"Text", "ActivityItem", "Picture"}, hasText : BOOLEAN,
     RichText : RichTexts, Source : {NoNode, SrcR1, SrcMissing},
     Background : {NoNode, SrcR1, SrcMissing}]

\* Two hex digits, a non-hex pair, a signed digit
ColorPairs == { <<"8", "0">>, <<"F", "F">>, <<"0", "0">>, <<"G", "G">>, <<"-", "1">> }

\* Foreground literals: '#' and four pairs, and literals of other shapes
ColorLiterals ==
    { <<"#">> \o a \o r \o g \o b : a, r, g, b \in ColorPairs }
      \cup { ColorShort, <<"r", "e", "d">>, <<>>,
              <<"F", "F", "F", "F", "0", "0", "0", "0", "0">>,
              ColorOk \o <<"0">> }

ColorElem(text, color_hex) ==
    [tag |-> "Text", hasText |-> FALSE,
     RichText |-> [present |-> TRUE, valign |-> "Top",
                   lines |-> << [align |-> "Left",
                                 runs |-> << [Text |-> text,
                                              Foreground |-> color_hex] >>] >>],
     Source |-> NoNode, Background |-> NoNode]

InitDirect ==
    /\ pkg = EmptyPackage
    /\ error = "none"
    /\ metadata = EmptyDict
    /\ board_info = EmptyDict
    /\ slide_order = <<>>
    /\ slide_file_map = EmptyDict
    /\ artifact = NoArtifact
    /\ NoViewer
    /\ run = 1
    /\ firstArtifact = NoArtifact
    /\ resolved = NoImage
    /\ rendered = NoRendered

InitResolve ==
    /\ InitDirect
    /\ pc = "call_resolve_image_source"
    /\ resource_map \in Registries
    /\ source_text \in SourceTexts
    /\ elem = PictureElem

InitElement ==
    /\ InitDirect
    /\ pc = "call_render_element"
    /\ resource_map \in { EmptyDict, [k \in {KeyR1} |-> PathR1] }
    /\ source_text = <<>>
    /\ elem \in ElementInputs

InitColor ==
    /\ InitDirect
    /\ pc = "call_render_element"
    /\ resource_map = EmptyDict
    /\ source_text = <<>>
    /\ elem \in { ColorElem(t, c) : t \in {"", "hi"}, c \in ColorLiterals }

SpecResolve == InitResolve /\ [][call_resolve_image_source]_vars

SpecElement == InitElement /\ [][call_render_element]_vars

SpecColor == InitColor /\ [][call_render_element]_vars

----------------------------------------------------------------------------
(* Specifications *)

Init ==
    /\ pkg \in Packages
    /\ pc = "parse_metadata"
    /\ error = "none"
    /\ NewConverter
    /\ artifact = NoArtifact
    /\ NoViewer
    /\ run = 1
    /\ firstArtifact = NoArtifact
    /\ NoDirect

Next ==
    \/ parse_metadata
    \/ parse_board
    \/ parse_references
    \/ map_slides
    \/ copy_resources
    \/ generate_html
    \/ open_artifact
    \/ click_next
    \/ click_prev
    \/ keydown

Spec == Init /\ [][Next]_vars

NextTwoRuns ==
    \/ parse_metadata
    \/ parse_board
    \/ parse_references
    \/ map_slides
    \/ copy_resources
    \/ generate_html
    \/ second_run

SpecTwoRuns == Init /\ [][NextTwoRuns]_vars

----------------------------------------------------------------------------
(* Properties *)

InStore(slide_id) == slide_id \in DOMAIN slide_file_map

\* The positions (1-based) of the Board's slide order that have a slide
KeptPositions == { p \in DOMAIN pkg.board.items : InStore(pkg.board.items[p]) }

\* The position of the slide order that the j-th emitted layer stands for
PositionOf(j) ==
    CHOOSE p \in KeptPositions : Cardinality({ q \in KeptPositions : q <= p }) = j

\* The slide file the j-th emitted layer stands for
FileOf(j) == pkg.slides[slide_file_map[pkg.board.items[PositionOf(j)]]]

\* s is "id://" followed by a key of the registry
Resolves(s) ==
    \E k \in DOMAIN resource_map : s = IdPrefix \o k

\* C1: the emitted slide layers are the Board's slide order with exactly the
\* entries that have no slide in the store removed: same relative order, one
\* layer per occurrence, and a missing entry raises nothing in generate_html.
C1_LayersFollowSlideOrder ==
    /\ artifact.written =>
          /\ Len(artifact.layers) = Cardinality(KeptPositions)
          /\ \A j \in DOMAIN artifact.layers :
                LET slide == render_slide(
                                 slide_file_map[pkg.board.items[PositionOf(j)]], FALSE)
                IN  /\ artifact.layers[j].bgimage = slide.bgimage
                    /\ artifact.layers[j].elements = slide.elements
    /\ pc = "generate_html" => error = "none"

\* C1 witness: an artifact whose slide order has a missing entry before a
\* present one and a duplicate
C1_Witness ==
    /\ artifact.written
    /\ Len(pkg.board.items) = MaxOrder
    /\ ~InStore(pkg.board.items[1])
    /\ InStore(pkg.board.items[MaxOrder])
    /\ Len(artifact.layers) = MaxOrder - 1

\* C2: only the layer rendered for slide-order position 0 is active, and a
\* layer has a background image iff its Background source resolves in the
\* registry.
C2_OnlyFirstPositionActive ==
    artifact.written =>
        \A j \in DOMAIN artifact.layers :
            /\ artifact.layers[j].active <=> (PositionOf(j) = 1)
            /\ (artifact.layers[j].bgimage # NoImage)
                  <=> (FileOf(j).Background # NoNode /\ Resolves(FileOf(j).Background))

\* C2 witness: two layers, the first active with a background image, the
\* second not active and without one
C2_Witness ==
    /\ artifact.written
    /\ Len(artifact.layers) = 2
    /\ artifact.layers[1].active /\ artifact.layers[1].bgimage # NoImage
    /\ ~artifact.layers[2].active /\ artifact.layers[2].bgimage = NoImage

ForwardCommand ==
    click_next \/ (Viewing /\ \E key \in {"ArrowRight", "ArrowDown", " "} : keydown_on(key))

BackwardCommand ==
    click_prev \/ (Viewing /\ \E key \in {"ArrowLeft", "ArrowUp"} : keydown_on(key))

ClampedForward ==
    IF Len(active) = 0 \/ currentSlide = Len(active) - 1
    THEN currentSlide ELSE currentSlide + 1

ClampedBackward ==
    IF currentSlide = 0 THEN currentSlide ELSE currentSlide - 1

\* C3: navigation clamps at the bounds: a forward command moves one slide on
\* except on the last slide, a backward command one slide back except on the
\* first, where they leave the index unchanged (no wrap-around), and
\* showSlide is only called with an argument in 0 .. slides.length - 1.
C3_NavigationClamps ==
    /\ [](pc = "viewing" => showArgs \subseteq 0 .. (Len(active) - 1))
    /\ [](pc = "viewing" /\ Len(active) > 0 => currentSlide \in 0 .. (Len(active) - 1))
    /\ [][ForwardCommand => currentSlide' = ClampedForward]_vars
    /\ [][BackwardCommand => currentSlide' = ClampedBackward]_vars

\* C3 witness: on the last of at least two slides after navigating there
C3_Witness ==
    /\ pc = "viewing"
    /\ Len(active) >= 2
    /\ currentSlide = Len(active) - 1
    /\ showArgs # {}

BoardMissingSize ==
    pkg.board.state = "ok" /\ ~(pkg.board.hasWidth /\ pkg.board.hasHeight)

\* C4: when Board.xml is there with valid data but without its SlideWidth
\* and/or SlideHeight node, parse_board does not end the run and the emitted
\* canvas is 1280x720.
C4_MissingSizeDefaults ==
    BoardMissingSize =>
        /\ pc = "parse_board" => error = "none"
        /\ artifact.written =>
              artifact.width = DefaultWidth /\ artifact.height = DefaultHeight

\* The stage the run is at reads an input that is absent
AtAbsentInput ==
    \/ pc = "parse_metadata" /\ pkg.doc.state = "absent"
    \/ pc = "parse_board" /\ pkg.board.state = "absent"
    \/ pc = "parse_references" /\ pkg.ref.state = "absent"
    \/ pc = "map_slides" /\ ~pkg.slidesDir

AllAbsent ==
    /\ pkg.doc.state = "absent"
    /\ pkg.board.state = "absent"
    /\ pkg.ref.state = "absent"
    /\ ~pkg.slidesDir

\* The components other than the board are at their defaults when their
\* input is absent, and no absent input ends the run
AbsentInputDefaults ==
    /\ pkg.doc.state = "absent" => metadata = EmptyDict
    /\ pkg.board.state = "absent" => slide_order = <<>>
    /\ pkg.ref.state = "absent" => resource_map = EmptyDict
    /\ ~pkg.slidesDir => slide_file_map = EmptyDict
    /\ error # "none" => ~AtAbsentInput
    /\ AllAbsent => error = "none"
    /\ pc \in {"done", "viewing"} => artifact.written

C6_FailuresAreLocal ==
    /\ error = "none"
    /\ pc \in {"copy_resources", "generate_html", "done", "viewing"} =>
          \A f \in FileNames :
              pkg.slides[f].state = "ok" /\ pkg.slides[f].Id # MetaAbsent
                  => pkg.slides[f].Id \in DOMAIN slide_file_map

\* s without its first Len(IdPrefix) characters
StripPrefix(s) == SubSeq(s, Len(IdPrefix) + 1, Len(s))

\* C7: resolve_image_source(s) is registry[k] when s is "id://" followed by
\* a registry key k, and no image in every other case, k being what is left
\* of s after stripping only the leading "id://".
C7_ResolvesByPrefix ==
    pc = "returned" =>
        resolved = IF startswith(source_text, IdPrefix)
                      /\ StripPrefix(source_text) \in DOMAIN resource_map
                   THEN resource_map[StripPrefix(source_text)]
                   ELSE NoImage

\* The run of the element passed to render_element, and its span
TheRun == elem.RichText.lines[1].runs[1]
TheSpans == rendered.content.rich.lines[1].spans

\* C8: a 9-character foreground literal starting with '#' is decomposed into
\* an alpha byte and r, g, b in 0..255 (#80FF0000: r 255, g 0, b 0, alpha
\* 128); any other literal is the color value verbatim; nothing is raised.
C8_ColorDecoding ==
    pc = "returned" /\ TheRun.Text # "" /\ TheRun.Foreground # <<>> =>
        LET lit == TheRun.Foreground
        IN  /\ rendered.err = "none"
            /\ Len(TheSpans) = 1
            /\ IF Len(lit) = 9 /\ lit[1] = "#"
               THEN /\ TheSpans[1].color.kind = "rgba"
                    /\ TheSpans[1].color.r \in 0..255
                    /\ TheSpans[1].color.g \in 0..255
                    /\ TheSpans[1].color.b \in 0..255
                    /\ TheSpans[1].color.a \in 0..255
                    /\ lit = ColorOk =>
                          /\ TheSpans[1].color.r = 255
                          /\ TheSpans[1].color.g = 0
                          /\ TheSpans[1].color.b = 0
                          /\ TheSpans[1].color.a = 128
               ELSE /\ TheSpans[1].color.kind = "verbatim"
                    /\ TheSpans[1].color.literal = lit

\* C9: a second conversion of the same package writes the same artifact as
\* the first.
C9_Deterministic ==
    run = 2 /\ pc = "done" => artifact = firstArtifact

HasRichText(e) ==
    /\ e.RichText.present
    /\ e.tag = "Text" \/ (e.tag = "ActivityItem" /\ e.hasText)

\* C10: an element with rich text content is emitted with the rendered rich
\* text and never an <img>, whatever its direct Source; an ActivityItem with
\* rich text has its Background image in its style iff that source resolves.
C10_TextWinsOverImage ==
    pc = "returned" /\ HasRichText(elem) =>
        /\ rendered.content.kind = "richtext"
        /\ rendered.content.src = NoImage
        /\ rendered.content.rich = render_rich_text(elem.RichText).rich
        /\ elem.tag = "ActivityItem" =>
              IF elem.Background # NoNode /\ Resolves(elem.Background)
              THEN rendered.bgimage = resource_map[StripPrefix(elem.Background)]
              ELSE rendered.bgimage = NoImage

\* C10 witness: an ActivityItem with rich text, a direct Source that
\* resolves and a Background that resolves
C10_Witness ==
    /\ pc = "returned"
    /\ elem.tag = "ActivityItem" /\ HasRichText(elem)
    /\ elem.Source = SrcR1 /\ elem.Background = SrcR1
    /\ KeyR1 \in DOMAIN resource_map
    /\ rendered.err = "none"
    /\ rendered.content.kind = "richtext"
    /\ rendered.bgimage = PathR1

\* The texts of the runs of a line that have a non-empty text, in order
NonEmptyTexts(runs) ==
    LET HasText(r) == r.Text \notin {RunTextAbsent, ""}
        kept == SelectSeq(runs, HasText)
    IN  [k \in DOMAIN kept |-> kept[k].Text]

\* C11: a TextRun whose text is empty or whose Text child is absent gives no
\* span and raises nothing: every line is still rendered and carries one
\* span per run with non-empty text, in document order.
C11_EmptyRunsEmitNothing ==
    pc = "returned" /\ HasRichText(elem) =>
        /\ rendered.err = "none"
        /\ Len(rendered.content.rich.lines) = Len(elem.RichText.lines)
        /\ \A i \in DOMAIN elem.RichText.lines :
              LET spans == rendered.content.rich.lines[i].spans
              IN  [k \in DOMAIN spans |-> spans[k].text]
                    = NonEmptyTexts(elem.RichText.lines[i].runs)

\* C12: once the artifact is open and has at least one slide layer, exactly
\* one layer is active and it is the layer at index currentSlide.
C12_ExactlyOneActive ==
    pc = "viewing" /\ Len(active) > 0 =>
        \A i \in DOMAIN active : active[i] <=> (i = currentSlide + 1)

====
